---- MODULE Spec2Model ----
(***************************************************************************)
(* A model of datasette/app.py: the database registry (Datasette.inspect), *)
(* name resolution (BaseView.resolve_db_name), the per-thread connection   *)
(* cache and time-boxed executor (BaseView.execute), custom SQL            *)
(* (DatabaseView.custom_sql, BaseView.view_get) and keyset pagination      *)
(* (TableView.data).                                                       *)
(*                                                                         *)
(* Strings the code takes apart (cursor tokens, numeric query arguments,   *)
(* parameter names) are sequences of one-character strings.  Python's None *)
(* and '' are both falsy wherever the code tests them and are both the     *)
(* empty sequence here.                                                    *)
(***************************************************************************)
EXTENDS Integers, Sequences, FiniteSets, TLC

VARIABLES
    \* ---- TableView.data, followed page by page
    table,              \* [kind, rows]: the table or view browsed
    other_args,         \* the request's column filters (query-string strings)
    page_size,          \* Datasette.page_size
    max_returned_rows,  \* Datasette.max_returned_rows
    cursor,             \* the _next argument of the coming request
    pages,              \* the 'rows' of every response so far
    cursors,            \* the 'next' of every response so far
    pstate,             \* "paging" | "done"
    \* ---- one request to TableView.data or RowView.data
    request_args,       \* request.args: the query string's keys and values
    pk_path,            \* the pk_path of a RowView request
    reply,              \* what data() returned or raised
    \* ---- BaseView.execute on the executor's threads
    sql_time_limit_ms,  \* Datasette.sql_time_limit_ms
    sqlite_extensions,  \* Datasette.sqlite_extensions
    connections,        \* threading.local: thread -> database -> connection
    opened,             \* every connection sqlite3.connect returned
    progress_handler,   \* connection -> the progress handler set on it
    work_queue,         \* the executor's queue of sql_operation_in_thread
    thread,             \* thread -> where it is in sql_operation_in_thread
    results,            \* what each finished execute call returned or raised
    submitted,          \* the number of execute calls made
    \* ---- Datasette.inspect and BaseView.resolve_db_name
    files,              \* Datasette.files
    inspect_data,       \* the inspect_data Datasette was constructed with
    _inspect,           \* Datasette._inspect
    inspect_calls,      \* what each call of inspect() did
    resolved,           \* the last call of resolve_db_name and its outcome
    inspecting,         \* caller -> where it is in inspect()
    pending,            \* execute calls handed to the executor, not yet begun
    \* ---- DatabaseView.custom_sql under BaseView.view_get
    request,            \* the ?sql= request being served
    dispatched,         \* the statements handed to execute
    responses           \* the responses sent, each with its request

requestVars == <<request_args, pk_path, reply>>

pageVars == <<table, other_args, page_size, cursor, pages, cursors, pstate,
              requestVars>>

execVars == <<sql_time_limit_ms, sqlite_extensions, connections, opened,
              progress_handler, work_queue, thread, results, submitted>>

registryVars == <<files, inspect_data, _inspect, inspect_calls, resolved,
                  inspecting, pending>>

customVars == <<request, dispatched, responses>>

vars == <<pageVars, max_returned_rows, execVars, registryVars, customVars>>

notExec == <<pageVars, registryVars, customVars>>

\* ------------------------------------------------------------------ bounds
MaxKey == 2                 \* column values are 1..MaxKey
MaxPageSize == 2            \* page_size is 1..MaxPageSize
SmallMaxReturnedRows == 2   \* a max_returned_rows below the default
NumThreads == 2             \* num_threads, the executor's max_workers
MaxCalls == 2               \* execute calls made in one behaviour
MaxCost == 2                \* a statement runs for 0..MaxCost ms
MaxMatch == 4               \* a statement matches 0..MaxMatch rows
MaxRowLimit == 2            \* max_returned_rows is 0..MaxRowLimit for one call
MaxFiles == 2               \* Datasette.files has 0..MaxFiles entries
MaxInspectCalls == 3        \* calls of inspect() in one behaviour
MaxSegments == 3            \* hyphen-separated parts of a requested db_name
MaxComponents == 3          \* comma-separated components of a path or cursor
MaxRedirects == 2           \* redirects a client follows for one request

\* ------------------------------------------------------- program constants
DefaultMaxReturnedRows == 1000

\* ----------------------------------------------------------------- strings
None == <<>>

DigitChars == <<"0", "1", "2", "3", "4", "5", "6", "7", "8", "9">>

RECURSIVE NatStr(_)
\* str(n) for n >= 0
NatStr(n) ==
    IF n < 10 THEN <<DigitChars[n + 1]>>
    ELSE NatStr(n \div 10) \o <<DigitChars[(n % 10) + 1]>>

\* str(n)
IntStr(n) == IF n < 0 THEN <<"-">> \o NatStr(0 - n) ELSE NatStr(n)

IsDigit(c) == \E i \in 1..10 : DigitChars[i] = c

DigitVal(c) == (CHOOSE i \in 1..10 : DigitChars[i] = c) - 1

IsNatStr(s) == Len(s) > 0 /\ \A i \in 1..Len(s) : IsDigit(s[i])

\* the strings int() accepts
IsIntStr(s) ==
    \/ IsNatStr(s)
    \/ Len(s) > 1 /\ s[1] = "-" /\ IsNatStr(Tail(s))

RECURSIVE NatVal(_)
NatVal(s) ==
    IF Len(s) = 0 THEN 0
    ELSE 10 * NatVal(SubSeq(s, 1, Len(s) - 1)) + DigitVal(s[Len(s)])

\* int(s), for a string int() accepts
IntVal(s) == IF s[1] = "-" THEN 0 - NatVal(Tail(s)) ELSE NatVal(s)

RECURSIVE SplitComma(_)
\* s.split(',')
SplitComma(s) ==
    IF \A i \in 1..Len(s) : s[i] # ","
    THEN <<s>>
    ELSE LET k == CHOOSE i \in 1..Len(s) :
                      s[i] = "," /\ \A j \in 1..(i - 1) : s[j] # ","
         IN <<SubSeq(s, 1, k - 1)>> \o SplitComma(SubSeq(s, k + 1, Len(s)))

RECURSIVE JoinComma(_)
\* ','.join(parts)
JoinComma(parts) ==
    IF Len(parts) = 0 THEN <<>>
    ELSE IF Len(parts) = 1 THEN parts[1]
    ELSE parts[1] \o <<",">> \o JoinComma(Tail(parts))

\* ------------------------------------------------------ Datasette.inspect
\* A name or a path segment is its hyphen-separated parts with the hyphens
\* between them: "foo-bar" is <<"foo", "-", "bar">>.
StemNames == {<<"foo">>, <<"bar">>, <<"foo", "-", "bar">>}

Contents == {"c1", "c2"}

\* hashlib.sha256 of a file's bytes, as hexdigest() spells it: its first
\* seven characters, then the rest.
HexDigest(content) ==
    IF content = "c1" THEN <<"abc1234", "9d0e">> ELSE <<"def5678", "41aa">>

\* the tables of a file and their row counts
TablesOf(content) ==
    IF content = "c1" THEN [t1 |-> [count |-> 1]]
    ELSE [t1 |-> [count |-> 2], t2 |-> [count |-> 0]]

Files == [dir : {"x", "y"}, stem : StemNames, content : Contents]

\* the mapping m with m[name] = info
WithEntry(m, name, info) ==
    [n \in DOMAIN m \cup {name} |-> IF n = name THEN info ELSE m[n]]

\* The for loop of inspect() from file i on, self._inspect being m and
\* `scanned` the files hashed so far: what self._inspect ends as, the files
\* hashed, and whether the loop raised.
RECURSIVE ScanFrom(_, _, _, _)
ScanFrom(fs, i, m, scanned) ==
    IF i > Len(fs) THEN [mapping |-> m, scanned |-> scanned, error |-> ""]
    ELSE IF fs[i].stem \in DOMAIN m
    THEN [mapping |-> m, scanned |-> scanned, error |-> "Exception"]
    ELSE ScanFrom(fs, i + 1,
             WithEntry(m, fs[i].stem,
                 [hash |-> HexDigest(fs[i].content),
                  file |-> <<fs[i].dir, fs[i].stem>>,
                  tables |-> TablesOf(fs[i].content)]),
             Append(scanned, <<fs[i].dir, fs[i].stem>>))

\* 'not self._inspect' holds without rescanning only in the first call
RescanAlways(m) == TRUE

\* 'not self._inspect': None and the empty mapping alike
NotInspected(m) == DOMAIN m = {}

\* What a call of inspect() does when self._inspect is m.
InspectCall(fs, m) ==
    IF NotInspected(m) THEN ScanFrom(fs, 1, <<>>, <<>>)
    ELSE [mapping |-> m, scanned |-> <<>>, error |-> ""]

HasDuplicateStems(fs) ==
    \E i, j \in 1..Len(fs) : i # j /\ fs[i].stem = fs[j].stem

FileLists(n) == UNION {[1..k -> Files] : k \in 0..n}

\* inspect data computed beforehand, as 'datasette inspect' computes it
InspectData ==
    {ScanFrom(<<f>>, 1, <<>>, <<>>).mapping : f \in {g \in Files : g.dir = "x"}}

NoResolve == [db_name |-> <<>>, kwargs |-> <<>>, outcome |-> <<>>]

\* the thread of the event loop, which runs the request handlers
EventLoop == 0

\* a caller outside inspect()
IdleCaller == [pc |-> "idle", i |-> 0, scanned |-> <<>>]

\* the threads that call inspect(): the event loop and the executor's
Callers == {EventLoop} \cup (1..NumThreads)

\* nobody is inside inspect() and no execute call waits for a thread
NoCallers ==
    /\ inspecting = [c \in Callers |-> IdleCaller]
    /\ pending = 0

\* inspect() is called, from a request or from an executor thread.
Inspect ==
    /\ Len(inspect_calls) < MaxInspectCalls
    /\ LET did == InspectCall(files, _inspect)
       IN  /\ _inspect' = did.mapping
           /\ inspect_calls' = Append(inspect_calls,
                  [error |-> did.error,
                   returned |-> IF did.error = "" THEN did.mapping ELSE <<>>,
                   scanned |-> did.scanned])
    /\ UNCHANGED <<files, inspect_data, resolved, inspecting, pending,
                   pageVars, execVars, customVars, max_returned_rows>>

\* -------------------------------------------------- BaseView.resolve_db_name
\* 'a' in s
Has(s, a) == \E i \in 1..Len(s) : s[i] = a

\* A split at the first hyphen instead of the last: s.split('-', 1).
SplitFirstHyphen(s) ==
    LET k == CHOOSE i \in 1..Len(s) :
                 s[i] = "-" /\ \A j \in 1..(i - 1) : s[j] # "-"
    IN  <<SubSeq(s, 1, k - 1), SubSeq(s, k + 1, Len(s))>>

\* s.rsplit('-', 1), for s with a hyphen: <<before, after>> the last one
RSplitHyphen(s) ==
    LET k == CHOOSE i \in 1..Len(s) :
                 s[i] = "-" /\ \A j \in (i + 1)..Len(s) : s[j] # "-"
    IN  <<SubSeq(s, 1, k - 1), SubSeq(s, k + 1, Len(s))>>

\* info['hash'][:7]
First7(hash) == <<hash[1]>>

\* a key of kwargs and its value, when the route supplied it
Kwarg(kwargs, key) == IF key \in DOMAIN kwargs THEN kwargs[key] ELSE <<>>

\* A lookup that only ever tries the whole segment as a name.
SplitDbNameWholeOnly(databases, db_name) ==
    [name |-> db_name, hash |-> None]

\* The name resolve_db_name looks up, and the hash it takes the request to
\* carry.
SplitDbName(databases, db_name) ==
    IF Has(db_name, "-")
    THEN LET parts == RSplitHyphen(db_name)
         IN  IF parts[1] \in DOMAIN databases
             THEN [name |-> parts[1], hash |-> parts[2]]
             ELSE [name |-> db_name, hash |-> None]
    ELSE [name |-> db_name, hash |-> None]

\* resolve_db_name(db_name, **kwargs): (name, expected, should_redirect) or
\* NotFound.
ResolveDbName(databases, db_name, kwargs) ==
    LET split == SplitDbName(databases, db_name)
        name == split.name
    IN  IF name \notin DOMAIN databases
        THEN [error |-> "NotFound", name |-> name, expected |-> <<>>,
              should_redirect |-> None]
        ELSE LET expected == First7(databases[name].hash)
             IN  [error |-> "", name |-> name, expected |-> expected,
                  should_redirect |->
                      IF expected # split.hash
                      THEN <<"/">> \o name \o <<"-">> \o expected
                           \o (IF "table" \in DOMAIN kwargs
                               THEN <<"/">> \o kwargs["table"] ELSE <<>>)
                           \o (IF "pk_path" \in DOMAIN kwargs
                               THEN <<"/">> \o kwargs["pk_path"] ELSE <<>>)
                           \o Kwarg(kwargs, "as_json")
                           \o Kwarg(kwargs, "as_db")
                      ELSE None]

PathParts == {"foo", "bar", "abc1234", "def5678"}

RECURSIVE Hyphenated(_)
\* the strings of n hyphen-separated parts
Hyphenated(n) ==
    IF n = 1 THEN {<<p>> : p \in PathParts}
    ELSE {s \o <<"-", p>> : s \in Hyphenated(n - 1), p \in PathParts}

DbNames == UNION {Hyphenated(n) : n \in 1..MaxSegments}

\* the keyword arguments the routes of app() pass
KwargSets ==
    {[as_json |-> <<>>],
     [as_db |-> <<".db">>],
     [table |-> <<"t">>, as_json |-> <<".json">>],
     [table |-> <<"t">>, pk_path |-> <<"1">>, as_json |-> <<".jsono">>]}

\* A request for db_name, not yet resolved.
Unresolved(db_name, kwargs) ==
    [db_name |-> db_name, kwargs |-> kwargs, outcome |-> <<>>]

\* BaseView.get resolves the db_name of the request against inspect().
Resolve ==
    /\ resolved.db_name # <<>>
    /\ resolved.outcome = <<>>
    /\ LET did == InspectCall(files, _inspect)
       IN  /\ _inspect' = did.mapping
           /\ resolved' =
                  [resolved EXCEPT !.outcome =
                       IF did.error # ""
                       THEN [error |-> did.error, name |-> <<>>,
                             expected |-> <<>>, should_redirect |-> None]
                       ELSE ResolveDbName(did.mapping, resolved.db_name,
                                          resolved.kwargs)]
    /\ UNCHANGED <<files, inspect_data, inspect_calls, inspecting, pending,
                   pageVars, execVars, customVars, max_returned_rows>>

NoRegistry ==
    /\ NoCallers
    /\ files = <<>>
    /\ inspect_data = None
    /\ _inspect = None
    /\ inspect_calls = <<>>
    /\ resolved = NoResolve

NoCustom ==
    /\ request = <<>>
    /\ dispatched = <<>>
    /\ responses = <<>>

\* ------------------------------------------------------------ the database
\* A row of a table: its rowid and its two columns.
Row(a, b) == [rowid |-> (a - 1) * MaxKey + b, a |-> a, b |-> b]

AllRows == {Row(a, b) : a \in 1..MaxKey, b \in 1..MaxKey}

Kinds == {"rowid", "pk1", "pk2", "view"}

\* the primary key columns PRAGMA table_info reports, in key order
PksOf(kind) ==
    CASE kind = "pk1" -> <<"a">>
      [] kind = "pk2" -> <<"a", "b">>
      [] OTHER -> <<>>

\* a primary key is unique
KeyUnique(kind, rows) ==
    kind = "pk1" => \A r1, r2 \in rows : r1.a = r2.a => r1 = r2

Tables ==
    {t \in [kind : Kinds, rows : SUBSET AllRows] : KeyUnique(t.kind, t.rows)}

\* The value SQLite compares a column of INTEGER affinity with when the
\* bound parameter is text: the integer the text spells, else the text
\* itself, which sorts after every integer.
ColumnGreater(v, text) == IsIntStr(text) /\ v > IntVal(text)

ColumnEquals(v, text) == IsIntStr(text) /\ v = IntVal(text)

\* one clause of the WHERE: '"col" op :p<n>'
ClauseHolds(row, clause, params) ==
    LET v == row[clause.col]
        p == params[clause.p + 1]
    IN  CASE clause.op = ">" -> ColumnGreater(v, p)
          [] clause.op = "=" -> ColumnEquals(v, p)

\* 'where c1 and c2 ...'
WhereHolds(row, where_clauses, params) ==
    \A i \in 1..Len(where_clauses) : ClauseHolds(row, where_clauses[i], params)

\* r1 before r2 under 'order by' the columns of order_by
RECURSIVE RowBefore(_, _, _)
RowBefore(r1, r2, order_by) ==
    /\ Len(order_by) > 0
    /\ \/ r1[order_by[1]] < r2[order_by[1]]
       \/ /\ r1[order_by[1]] = r2[order_by[1]]
          /\ RowBefore(r1, r2, Tail(order_by))

RECURSIVE Sorted(_, _)
\* the rows of a set in 'order by' order
Sorted(rows, order_by) ==
    IF rows = {} THEN <<>>
    ELSE LET first == CHOOSE r \in rows :
                          \A q \in rows \ {r} : RowBefore(r, q, order_by)
         IN <<first>> \o Sorted(rows \ {first}, order_by)

\* s[:n]
Take(s, n) == SubSeq(s, 1, IF n < Len(s) THEN n ELSE Len(s))

\* s[n:]
Drop(s, n) == SubSeq(s, n + 1, Len(s))

\* 'select ... from t where ... order by ... limit l offset o': a view, which
\* gets no ORDER BY, is read in the order of its scan.
Select(rows, where_clauses, params, order_by, limit, offset) ==
    LET matching == {r \in rows : WhereHolds(r, where_clauses, params)}
        scan == IF Len(order_by) > 0 THEN order_by ELSE <<"rowid">>
    IN  Take(Drop(Sorted(matching, scan), offset), limit)

\* ------------------------------------------------------- BaseView.execute
\* A time limit that is the request's whenever the request gives one.
TimeLimitMsOverrideWins(custom_time_limit, default_ms) ==
    IF custom_time_limit # None THEN custom_time_limit[1] ELSE default_ms

\* time_limit_ms of sql_operation_in_thread.  custom_time_limit is None or
\* <<n>> for the integer n.
TimeLimitMs(custom_time_limit, default_ms) ==
    IF /\ custom_time_limit # None
       /\ custom_time_limit[1] # 0
       /\ custom_time_limit[1] < default_ms
    THEN custom_time_limit[1]
    ELSE default_ms

\* A fetch without the probe row: fetchmany(max_returned_rows).
FetchRowsNoProbe(result, truncate, max_rows) ==
    IF max_rows # 0 /\ truncate
    THEN LET fetched == SubSeq(result, 1,
                 IF max_rows < Len(result) THEN max_rows ELSE Len(result))
         IN  [rows |-> fetched, truncated |-> Len(fetched) > max_rows]
    ELSE [rows |-> result, truncated |-> FALSE]

\* What sql_operation_in_thread fetches from a cursor that would yield
\* `result`: (rows, truncated).
FetchRows(result, truncate, max_rows) ==
    IF max_rows # 0 /\ truncate
    THEN LET fetched == Take(result, max_rows + 1)
         IN  [rows |-> Take(fetched, max_rows),
              truncated |-> Len(fetched) > max_rows]
    ELSE [rows |-> result, truncated |-> FALSE]

\* --------------------------------------------------------- utils (absent)
\* build_where_clauses for the filters the model draws: 'col=value' and
\* 'col__exact=value' are '"col" = :p<n>' with the value bound.
BuildWhereClauses(args) ==
    [where_clauses |-> [i \in 1..Len(args) |->
                            [col |-> args[i].col, op |-> "=", p |-> i - 1]],
     params |-> [i \in 1..Len(args) |-> args[i].value]]

\* compound_pks_from_path: the comma-separated components, percent-decoded
\* (the decoding changes none of the characters of a decimal number).
CompoundPksFromPath(path) == SplitComma(path)

\* path_from_row_pks: the rowid, or the primary key values in key order,
\* each percent-encoded (which changes no character of a decimal number),
\* joined by commas.
PathFromRowPks(row, pks, use_rowid) ==
    IF use_rowid THEN IntStr(row.rowid)
    ELSE JoinComma([i \in 1..Len(pks) |-> IntStr(row[pks[i]])])

\* ---------------------------------------------------------- TableView.data
\* The cursor predicates of a keyed table: one '"pk" > :p<n>' per key column.
PkCursorClauses(pks, param_counter) ==
    [i \in 1..Len(pks) |->
        [col |-> pks[i], op |-> ">", p |-> param_counter + i - 1]]

\* A cursor applied without comparing its length with the key's: zip() pairs
\* as many key columns and values as both have.
ApplyNextUnchecked(kind, next, where_clauses, params) ==
    LET pks == PksOf(kind)
        pk_values == CompoundPksFromPath(next)
        n == IF Len(pk_values) < Len(pks) THEN Len(pk_values) ELSE Len(pks)
    IN  CASE next = None \/ kind = "view" ->
               [where_clauses |-> where_clauses, params |-> params]
          [] kind = "rowid" ->
               [where_clauses |-> Append(where_clauses,
                    [col |-> "rowid", op |-> ">", p |-> Len(params)]),
                params |-> Append(params, next)]
          [] OTHER ->
               [where_clauses |-> where_clauses \o
                    PkCursorClauses(SubSeq(pks, 1, n), Len(params)),
                params |-> params \o SubSeq(pk_values, 1, n)]

\* A statement that leaves the cursor of a table out of its WHERE clauses.
ApplyNextNever(kind, next, where_clauses, params) ==
    [where_clauses |-> where_clauses, params |-> params]

\* The WHERE clauses and parameters once _next is applied (a view takes none).
ApplyNext(kind, next, where_clauses, params) ==
    LET pks == PksOf(kind)
        pk_values == CompoundPksFromPath(next)
    IN  CASE next = None \/ kind = "view" ->
               [where_clauses |-> where_clauses, params |-> params]
          [] kind = "rowid" ->
               [where_clauses |-> Append(where_clauses,
                    [col |-> "rowid", op |-> ">", p |-> Len(params)]),
                params |-> Append(params, next)]
          [] OTHER ->
               IF Len(pk_values) = Len(pks)
               THEN [where_clauses |->
                         where_clauses \o PkCursorClauses(pks, Len(params)),
                     params |-> params \o pk_values]
               ELSE [where_clauses |-> where_clauses, params |-> params]

\* The response of TableView.data to a request with column filters `args`
\* and _next = `next`.
TableViewData(t, args, next, psize, max_rows) ==
    LET pks == PksOf(t.kind)
        is_view == t.kind = "view"
        use_rowid == Len(pks) = 0 /\ ~is_view
        order_by == IF is_view THEN <<>>
                    ELSE IF use_rowid THEN <<"rowid">> ELSE pks
        built == IF Len(args) > 0 THEN BuildWhereClauses(args)
                 ELSE [where_clauses |-> <<>>, params |-> <<>>]
        bad_offset == next # None /\ is_view /\ ~IsIntStr(next)
        offset == IF next # None /\ is_view /\ ~bad_offset
                  THEN IntVal(next) ELSE 0
        q == ApplyNext(t.kind, next, built.where_clauses, built.params)
        result == Select(t.rows, q.where_clauses, q.params, order_by,
                         psize + 1, IF offset < 0 THEN 0 ELSE offset)
        got == FetchRows(result, TRUE, max_rows)
        rows == got.rows
        view_next == (IF next = None THEN 0 ELSE IntVal(next)) + psize
        \* 'next_value and str(next_value) or None'
        next_value ==
            IF Len(rows) > psize
            THEN IF is_view
                 THEN IF view_next = 0 THEN None ELSE IntStr(view_next)
                 ELSE PathFromRowPks(rows[Len(rows) - 1], pks, use_rowid)
            ELSE None
    IN  IF bad_offset
        THEN [error |-> "ValueError", rows |-> <<>>, next |-> None,
              truncated |-> FALSE, where_clauses |-> <<>>, params |-> <<>>,
              offset |-> 0, fetched |-> 0]
        ELSE [error |-> "", rows |-> Take(rows, psize), next |-> next_value,
              truncated |-> got.truncated,
              where_clauses |-> q.where_clauses, params |-> q.params,
              offset |-> offset, fetched |-> Len(rows)]

\* ------------------------------------------- BaseView.execute, thread by thread
Threads == 1..NumThreads

Databases == {"db1", "db2"}

NoConnection == 0

IdleThread ==
    [pc |-> "idle", call |-> <<>>, conn |-> NoConnection, time_limit_ms |-> 0,
     elapsed |-> 0, rows |-> <<>>, truncated |-> FALSE]

\* The executor with nothing submitted and no connection opened.
NoExecute ==
    /\ sql_time_limit_ms = MaxCost
    /\ sqlite_extensions = <<>>
    /\ connections = [w \in Threads |-> [d \in Databases |-> NoConnection]]
    /\ opened = <<>>
    /\ progress_handler = <<>>
    /\ work_queue = <<>>
    /\ thread = [w \in Threads |-> IdleThread]
    /\ results = {}
    /\ submitted = 0

\* custom_time_limit as custom_sql and TableView.data pass it: absent unless
\* _sql_time_limit_ms is a non-empty string, and then int() of it.
CustomTimeLimit(raw) == IF raw = None THEN None ELSE <<IntVal(raw)>>

\* One execute call: the database, how long the statement runs, how many
\* rows it matches, truncate, and the request's _sql_time_limit_ms.
Call(id, db, cost, matching, truncate, raw) ==
    [id |-> id, db |-> db, cost |-> cost, matching |-> matching,
     truncate |-> truncate, raw |-> raw,
     custom_time_limit |-> CustomTimeLimit(raw)]

\* run_in_executor: the call joins the executor's queue.
Submit ==
    /\ submitted < MaxCalls
    /\ \E db \in Databases, cost \in {0, MaxCost},
          raw \in {None, IntStr(MaxCost - 1)} :
          work_queue' = Append(work_queue,
              Call(submitted + 1, db, cost, 1, TRUE, raw))
    /\ submitted' = submitted + 1
    /\ UNCHANGED <<sql_time_limit_ms, sqlite_extensions,
                   connections, opened, progress_handler,
                   thread, results, max_returned_rows, notExec>>

\* A cache that is one dictionary for all threads instead of thread-local.
CachedConnectionShared(cache, w, db) ==
    IF \E v \in DOMAIN cache : cache[v][db] # 0
    THEN cache[CHOOSE v \in DOMAIN cache : cache[v][db] # 0][db]
    ELSE 0

\* getattr(connections, db_name, None) on thread w
CachedConnection(cache, w, db) == cache[w][db]

\* prepare_connection raises when SELECT load_extension(...) fails, as it
\* does for an extension SQLite cannot load
PrepareConnectionRaises(extensions) ==
    \E i \in 1..Len(extensions) : extensions[i] = "missing.so"

\* the error of a call whose connection could not be prepared
PrepareError == "OperationalError in prepare_connection"

\* A free thread takes the next call and finds its connection to the
\* database in its thread-local cache, or opens one, prepares it and caches
\* it.  When prepare_connection raises, the call ends there: the connection
\* just opened is not cached.
GetConnection(w) ==
    /\ thread[w].pc = "idle"
    /\ work_queue # <<>>
    /\ LET call == Head(work_queue)
           conn == CachedConnection(connections, w, call.db)
       IN  IF conn # NoConnection
           THEN /\ thread' = [thread EXCEPT ![w] =
                       [IdleThread EXCEPT !.pc = "connected", !.call = call,
                                          !.conn = conn]]
                /\ UNCHANGED <<opened, progress_handler, connections,
                               results>>
           ELSE /\ opened' = Append(opened, [db |-> call.db, thread |-> w])
                /\ progress_handler' = Append(progress_handler, None)
                /\ IF PrepareConnectionRaises(sqlite_extensions)
                   THEN /\ results' = results \cup
                               {[call |-> call, thread |-> w,
                                 conn |-> Len(opened) + 1,
                                 time_limit_ms |-> 0, error |-> PrepareError,
                                 rows |-> <<>>, truncated |-> FALSE]}
                        /\ UNCHANGED <<connections, thread>>
                   ELSE /\ connections' = [connections EXCEPT
                               ![w][call.db] = Len(opened) + 1]
                        /\ thread' = [thread EXCEPT ![w] =
                               [IdleThread EXCEPT !.pc = "connected",
                                    !.call = call, !.conn = Len(opened) + 1]]
                        /\ UNCHANGED results
    /\ work_queue' = Tail(work_queue)
    /\ UNCHANGED <<sql_time_limit_ms, sqlite_extensions, submitted,
                   max_returned_rows, notExec>>

\* sqlite_timelimit on entry: the handler that aborts once ms have elapsed.
TimeLimitHandler(call, ms) == <<[call |-> call.id, ms |-> ms]>>

\* time_limit_ms is chosen and 'with sqlite_timelimit(conn, time_limit_ms)'
\* is entered.
EnterTimeLimit(w) ==
    /\ thread[w].pc = "connected"
    /\ LET ms == TimeLimitMs(thread[w].call.custom_time_limit,
                             sql_time_limit_ms)
       IN  /\ progress_handler' = [progress_handler EXCEPT
                   ![thread[w].conn] = TimeLimitHandler(thread[w].call, ms)]
           /\ thread' = [thread EXCEPT ![w].pc = "executing",
                                       ![w].time_limit_ms = ms]
    /\ UNCHANGED <<sql_time_limit_ms, sqlite_extensions,
                   connections, opened, work_queue,
                   results, submitted, max_returned_rows, notExec>>

\* The handler set on the connection says to abort.
HandlerAborts(handler, elapsed) == handler # None /\ elapsed >= handler[1].ms

\* cursor.execute runs for one more millisecond, unless the connection's
\* progress handler aborts it: sqlite3.OperationalError.
Progress(w) ==
    /\ thread[w].pc = "executing"
    /\ thread[w].elapsed < thread[w].call.cost
    /\ IF HandlerAborts(progress_handler[thread[w].conn], thread[w].elapsed)
       THEN thread' = [thread EXCEPT ![w].pc = "raising"]
       ELSE thread' = [thread EXCEPT ![w].elapsed = @ + 1]
    /\ UNCHANGED <<sql_time_limit_ms, sqlite_extensions,
                   connections, opened, progress_handler,
                   work_queue, results, submitted, max_returned_rows,
                   notExec>>

\* The statement has run: its rows are fetched.
Fetch(w) ==
    /\ thread[w].pc = "executing"
    /\ thread[w].elapsed = thread[w].call.cost
    /\ LET got == FetchRows([i \in 1..thread[w].call.matching |-> i],
                            thread[w].call.truncate, max_returned_rows)
       IN  thread' = [thread EXCEPT ![w].pc = "returning",
                                    ![w].rows = got.rows,
                                    ![w].truncated = got.truncated]
    /\ UNCHANGED <<sql_time_limit_ms, sqlite_extensions,
                   connections, opened, progress_handler,
                   work_queue, results, submitted, max_returned_rows,
                   notExec>>

\* A cache that forgets the connection of a statement that raised.
ConnectionsDroppedOnError(cache, w, db) == [cache EXCEPT ![w][db] = 0]

\* What the thread-local cache holds once a statement raised: the except
\* clause prints and re-raises, and touches no connection.
ConnectionsAfterError(cache, w, db) == cache

\* The with block is left, the handler is taken off the connection, and the
\* call returns its rows or raises; the thread is free again.
LeaveTimeLimit(w) ==
    /\ thread[w].pc \in {"returning", "raising"}
    /\ progress_handler' =
           [progress_handler EXCEPT ![thread[w].conn] = None]
    /\ results' = results \cup
           {[call |-> thread[w].call, thread |-> w, conn |-> thread[w].conn,
             time_limit_ms |-> thread[w].time_limit_ms,
             error |-> IF thread[w].pc = "raising"
                       THEN "OperationalError" ELSE "",
             rows |-> thread[w].rows, truncated |-> thread[w].truncated]}
    /\ connections' =
           IF thread[w].pc = "raising"
           THEN ConnectionsAfterError(connections, w, thread[w].call.db)
           ELSE connections
    /\ thread' = [thread EXCEPT ![w] = IdleThread]
    /\ UNCHANGED <<sql_time_limit_ms, sqlite_extensions,
                   opened, work_queue, submitted,
                   max_returned_rows, notExec>>

ThreadStep(w) ==
    \/ GetConnection(w)
    \/ EnterTimeLimit(w)
    \/ Progress(w)
    \/ Fetch(w)
    \/ LeaveTimeLimit(w)

\* no request to TableView.data or RowView.data is in hand
NoRequest ==
    /\ request_args = <<>>
    /\ pk_path = <<>>
    /\ reply = <<>>

NoPage ==
    /\ NoRequest
    /\ table = [kind |-> "rowid", rows |-> {}]
    /\ other_args = <<>>
    /\ page_size = 1
    /\ cursor = None
    /\ pages = <<>>
    /\ cursors = <<>>
    /\ pstate = "done"

\* the values of Datasette.sqlite_extensions
ExtensionLists == {<<>>, <<"missing.so">>}

InitExec ==
    /\ NoPage
    /\ NoRegistry
    /\ NoCustom
    /\ max_returned_rows = DefaultMaxReturnedRows
    /\ sql_time_limit_ms = MaxCost
    /\ sqlite_extensions \in ExtensionLists
    /\ connections = [w \in Threads |-> [d \in Databases |-> NoConnection]]
    /\ opened = <<>>
    /\ progress_handler = <<>>
    /\ work_queue = <<>>
    /\ thread = [w \in Threads |-> IdleThread]
    /\ results = {}
    /\ submitted = 0

NextExec == Submit \/ \E w \in Threads : ThreadStep(w)

SpecExec == InitExec /\ [][NextExec]_vars


\* ------------------------------------------------------ one execute call
\* One call, of any kind, waits in the queue of an executor whose limits
\* are drawn freely.
InitCall ==
    /\ NoPage
    /\ NoRegistry
    /\ NoCustom
    /\ sql_time_limit_ms \in 0..MaxCost
    /\ sqlite_extensions = <<>>
    /\ max_returned_rows \in 0..MaxRowLimit
    /\ connections = [w \in Threads |-> [d \in Databases |-> NoConnection]]
    /\ opened = <<>>
    /\ progress_handler = <<>>
    /\ \E db \in Databases, cost \in 0..MaxCost, matching \in 0..MaxMatch,
          truncate \in BOOLEAN,
          raw \in {None} \cup {IntStr(v) : v \in (0 - 1)..(MaxCost + 1)} :
          work_queue = <<Call(1, db, cost, matching, truncate, raw)>>
    /\ thread = [w \in Threads |-> IdleThread]
    /\ results = {}
    /\ submitted = 1

NextCall == \E w \in Threads : ThreadStep(w)

SpecCall == InitCall /\ [][NextCall]_vars

\* ------------------------------------------------- the registry on its own
InitInspect ==
    /\ NoPage
    /\ NoExecute
    /\ NoCustom
    /\ max_returned_rows = DefaultMaxReturnedRows
    /\ files \in FileLists(MaxFiles)
    /\ inspect_data \in {None} \cup InspectData
    /\ _inspect = inspect_data
    /\ inspect_calls = <<>>
    /\ resolved = NoResolve
    /\ NoCallers

NextInspect == Inspect

SpecInspect == InitInspect /\ [][NextInspect]_vars

InitResolve ==
    /\ NoPage
    /\ NoExecute
    /\ NoCustom
    /\ max_returned_rows = DefaultMaxReturnedRows
    /\ files \in {fs \in FileLists(MaxFiles) :
                     /\ ~HasDuplicateStems(fs)
                     /\ \A i \in 1..Len(fs) : fs[i].dir = "x"}
    /\ inspect_data = None
    /\ _inspect = None
    /\ inspect_calls = <<>>
    /\ NoCallers
    /\ \E db_name \in DbNames, kwargs \in KwargSets :
           resolved = Unresolved(db_name, kwargs)

NextResolve == Resolve

SpecResolve == InitResolve /\ [][NextResolve]_vars

\* ------------------------------------------------- a client that follows
\* what the routes of app() end a db_name at: the next slash, or the format
\* or download suffix
RouteSuffixes == {<<".json">>, <<".jsono">>, <<".db">>}

\* the db_name the routes of app() match in a path
DatabaseSegment(url) ==
    LET ends == {i \in 2..Len(url) :
                    url[i] = "/" \/ <<url[i]>> \in RouteSuffixes}
        k == IF ends = {} THEN Len(url) + 1
             ELSE CHOOSE i \in ends : \A j \in ends : i <= j
    IN  SubSeq(url, 2, k - 1)

\* BaseView.get answers with the redirect, and the client requests its
\* target: the same route, with the target's db_name.
FollowRedirect ==
    /\ resolved.outcome # <<>>
    /\ resolved.outcome.should_redirect # None
    /\ Len(resolved.followed) < MaxRedirects
    /\ resolved' =
           [db_name |-> DatabaseSegment(resolved.outcome.should_redirect),
            kwargs |-> resolved.kwargs,
            outcome |-> <<>>,
            followed |-> Append(resolved.followed,
                                [db_name |-> resolved.db_name,
                                 outcome |-> resolved.outcome])]
    /\ UNCHANGED <<files, inspect_data, _inspect, inspect_calls, inspecting,
                   pending, pageVars, execVars, customVars,
                   max_returned_rows>>

InitFollow ==
    /\ NoPage
    /\ NoExecute
    /\ NoCustom
    /\ max_returned_rows = DefaultMaxReturnedRows
    /\ files \in {fs \in FileLists(MaxFiles) :
                     /\ ~HasDuplicateStems(fs)
                     /\ \A i \in 1..Len(fs) : fs[i].dir = "x"}
    /\ inspect_data = None
    /\ _inspect = None
    /\ inspect_calls = <<>>
    /\ NoCallers
    /\ \E db_name \in DbNames, kwargs \in KwargSets :
           resolved = [db_name |-> db_name, kwargs |-> kwargs,
                       outcome |-> <<>>, followed |-> <<>>]

NextFollow == Resolve \/ FollowRedirect

SpecFollow == InitFollow /\ [][NextFollow]_vars

\* ------------------------------------- inspect() called from several threads
\* the entry inspect() stores for file f
DatabaseInfo(f) ==
    [hash |-> HexDigest(f.content), file |-> <<f.dir, f.stem>>,
     tables |-> TablesOf(f.content)]

\* the calls of inspect() begun so far
CallsBegun ==
    Len(inspect_calls) +
        Cardinality({c \in Callers : inspecting[c].pc # "idle"})

\* Caller c enters inspect(): the event loop for a request (resolve_db_name,
\* IndexView.get, TableView.data), a thread of the executor for an execute
\* call handed to it, at the first statement on a database.  An empty or
\* absent self._inspect is replaced by {} and the loop over the files begins.
BeginInspect(c) ==
    /\ inspecting[c].pc = "idle"
    /\ CallsBegun < MaxInspectCalls
    /\ IF c = EventLoop THEN UNCHANGED pending
       ELSE pending > 0 /\ pending' = pending - 1
    /\ IF NotInspected(_inspect)
       THEN /\ _inspect' = <<>>
            /\ inspecting' = [inspecting EXCEPT ![c] =
                   [pc |-> "scanning", i |-> 1, scanned |-> <<>>]]
       ELSE /\ inspecting' = [inspecting EXCEPT ![c] =
                   [pc |-> "returning", i |-> 0, scanned |-> <<>>]]
            /\ UNCHANGED _inspect
    /\ UNCHANGED <<files, inspect_data, inspect_calls, resolved, pageVars,
                   execVars, customVars, max_returned_rows>>

\* 'if name in self._inspect: raise', then the file is opened and hashed.
CheckStem(c) ==
    /\ inspecting[c].pc = "scanning"
    /\ inspecting[c].i <= Len(files)
    /\ IF files[inspecting[c].i].stem \in DOMAIN _inspect
       THEN /\ inspect_calls' = Append(inspect_calls,
                   [caller |-> c, error |-> "Exception", returned |-> <<>>,
                    scanned |-> inspecting[c].scanned])
            /\ inspecting' = [inspecting EXCEPT ![c] = IdleCaller]
       ELSE /\ inspecting' = [inspecting EXCEPT
                   ![c].pc = "hashed",
                   ![c].scanned = Append(@,
                       <<files[inspecting[c].i].dir,
                         files[inspecting[c].i].stem>>)]
            /\ UNCHANGED inspect_calls
    /\ UNCHANGED <<files, inspect_data, _inspect, resolved, pending, pageVars,
                   execVars, customVars, max_returned_rows>>

\* 'self._inspect[name] = {...}' and on to the next file.
StoreEntry(c) ==
    /\ inspecting[c].pc = "hashed"
    /\ _inspect' = WithEntry(_inspect, files[inspecting[c].i].stem,
                             DatabaseInfo(files[inspecting[c].i]))
    /\ inspecting' = [inspecting EXCEPT ![c].pc = "scanning",
                                        ![c].i = @ + 1]
    /\ UNCHANGED <<files, inspect_data, inspect_calls, resolved, pending,
                   pageVars, execVars, customVars, max_returned_rows>>

\* 'return self._inspect'.  A request whose database is in the mapping may go
\* on to hand a statement to the executor.
ReturnInspect(c) ==
    /\ \/ inspecting[c].pc = "returning"
       \/ inspecting[c].pc = "scanning" /\ inspecting[c].i > Len(files)
    /\ inspect_calls' = Append(inspect_calls,
           [caller |-> c, error |-> "", returned |-> _inspect,
            scanned |-> inspecting[c].scanned])
    /\ inspecting' = [inspecting EXCEPT ![c] = IdleCaller]
    /\ IF c = EventLoop /\ DOMAIN _inspect # {}
       THEN pending' \in {pending, pending + 1}
       ELSE UNCHANGED pending
    /\ UNCHANGED <<files, inspect_data, _inspect, resolved, pageVars,
                   execVars, customVars, max_returned_rows>>

InitServe ==
    /\ NoPage
    /\ NoExecute
    /\ NoCustom
    /\ max_returned_rows = DefaultMaxReturnedRows
    /\ files \in FileLists(MaxFiles)
    /\ inspect_data \in {None} \cup InspectData
    /\ _inspect = inspect_data
    /\ inspect_calls = <<>>
    /\ resolved = NoResolve
    /\ NoCallers

NextServe ==
    \E c \in Callers :
        \/ BeginInspect(c)
        \/ CheckStem(c)
        \/ StoreEntry(c)
        \/ ReturnInspect(c)

SpecServe == InitServe /\ [][NextServe]_vars

\* --------------------------------------------------- claims on the registry
\* p is the beginning of s
StartsWith(s, p) == Len(p) <= Len(s) /\ SubSeq(s, 1, Len(p)) = p

Hash7s == {First7(HexDigest(c)) : c \in Contents}

\* C5 (as claimed): for a registered name n, resolving the path segment n,
\* or n followed by a hyphen and a hash that is not n's current one, never
\* ends NotFound and gives a redirect that starts with /n-<first 7
\* characters of n's hash>.
C5_RedirectsToSameDatabase ==
    \A n \in DOMAIN _inspect :
        (/\ resolved.outcome # <<>>
         /\ \/ resolved.db_name = n
            \/ \E h \in Hash7s :
                   /\ h # First7(_inspect[n].hash)
                   /\ resolved.db_name = n \o <<"-">> \o h) =>
            /\ resolved.outcome.error = ""
            /\ StartsWith(resolved.outcome.should_redirect,
                   <<"/">> \o n \o <<"-">> \o First7(_inspect[n].hash))

\* the request's table, pk_path and format or download suffix, as a
\* redirect carries them
RequestSuffix(kwargs) ==
    (IF "table" \in DOMAIN kwargs THEN <<"/">> \o kwargs["table"] ELSE <<>>)
    \o (IF "pk_path" \in DOMAIN kwargs
        THEN <<"/">> \o kwargs["pk_path"] ELSE <<>>)
    \o (IF "as_json" \in DOMAIN kwargs THEN kwargs["as_json"] ELSE <<>>)
    \o (IF "as_db" \in DOMAIN kwargs THEN kwargs["as_db"] ELSE <<>>)

\* the part of s before its last hyphen, when s has one and that part is a
\* registered name
RegisteredPrefix(s) ==
    {n \in DOMAIN _inspect :
        /\ Len(s) = Len(n) + 2
        /\ SubSeq(s, 1, Len(n)) = n
        /\ s[Len(s) - 1] = "-"
        /\ s[Len(s)] # "-"}

\* C17: a resolved path segment s has exactly one of three outcomes.
\* NotFound, exactly when neither s nor the part of s before its last
\* hyphen is registered.  No redirect, exactly when s is a registered name,
\* a hyphen, and the first seven characters of that database's hash.
\* Otherwise a redirect to /<name>-<hash7> of a registered name, followed by
\* the request's table, pk_path and suffix in that order.
C17_ThreeOutcomes ==
    resolved.outcome # <<>> =>
        LET s == resolved.db_name
            o == resolved.outcome
            names == RegisteredPrefix(s) \cup ({s} \cap DOMAIN _inspect)
        IN  /\ (o.error = "NotFound") <=> (names = {})
            /\ o.error \in {"", "NotFound"}
            /\ o.error = "NotFound" => o.should_redirect = None
            /\ o.error = "" =>
                   /\ (o.should_redirect = None) <=>
                          \E n \in DOMAIN _inspect :
                              s = n \o <<"-">> \o First7(_inspect[n].hash)
                   /\ o.should_redirect # None =>
                          \E n \in names :
                              o.should_redirect =
                                  <<"/">> \o n \o <<"-">>
                                  \o First7(_inspect[n].hash)
                                  \o RequestSuffix(resolved.kwargs)

C17_Witness ==
    /\ resolved.outcome # <<>>
    /\ resolved.db_name = <<"foo", "-", "bar", "-", "def5678">>
    /\ resolved.outcome.should_redirect =
           <<"/", "foo", "-", "bar", "-", "abc1234", "/", "t", "/", "1",
             ".jsono">>

C9_DuplicateStemsAlwaysFail ==
    (HasDuplicateStems(files) /\ inspect_data = None) =>
        \A i \in 1..Len(inspect_calls) : inspect_calls[i].error # ""

\* ------------------------------------------------ claims on BaseView.execute
Min(x, y) == IF x < y THEN x ELSE y

\* C3: a call that asks for truncation under a row limit L > 0 returns
\* truncated = TRUE exactly when its statement matches more than L rows,
\* and returns min(matching, L) rows.
C3_TruncatedIffMore ==
    \A r \in results :
        (r.error = "" /\ r.call.truncate /\ max_returned_rows > 0) =>
            /\ r.truncated <=> (r.call.matching > max_returned_rows)
            /\ Len(r.rows) = Min(r.call.matching, max_returned_rows)
            /\ Len(r.rows) <= max_returned_rows

C3_Witness ==
    \E r \in results :
        /\ r.error = "" /\ r.call.truncate /\ max_returned_rows > 0
        /\ r.truncated
        /\ Len(r.rows) = max_returned_rows

\* C4 (as claimed): the time limit set on the connection for a statement is
\* min(v, d) when the request carries the override v, whatever integer v
\* is, and the default d when it carries none.
C4_LimitIsMin ==
    \A w \in Threads :
        thread[w].pc = "executing" =>
            LET raw == thread[w].call.raw
                limit == IF raw = None THEN sql_time_limit_ms
                         ELSE Min(IntVal(raw), sql_time_limit_ms)
            IN  /\ thread[w].time_limit_ms = limit
                /\ progress_handler[thread[w].conn] =
                       TimeLimitHandler(thread[w].call, limit)

\* the connections thread w opened to database db
OpenedBy(w, db) ==
    {c \in 1..Len(opened) : opened[c].thread = w /\ opened[c].db = db}

\* C6 (as claimed): a thread opens a connection to a database only when it
\* has none cached and reuses the cached one afterwards: after any sequence
\* of calls it has opened at most one per database, at most threads x
\* databases were ever opened, and a connection is cached, held and used
\* only by the thread that opened it.
C6_OneConnectionPerThreadAndDatabase ==
    /\ \A w \in Threads, db \in Databases : Cardinality(OpenedBy(w, db)) <= 1
    /\ Len(opened) <= NumThreads * Cardinality(Databases)
    /\ \A w \in Threads, db \in Databases :
           connections[w][db] # NoConnection =>
               connections[w][db] \in OpenedBy(w, db)
    /\ \A w \in Threads :
           thread[w].pc # "idle" =>
               thread[w].conn \in OpenedBy(w, thread[w].call.db)
    /\ \A r \in results : r.conn \in OpenedBy(r.thread, r.call.db)
    /\ \A r1, r2 \in results :
           (r1.thread = r2.thread /\ r1.call.db = r2.call.db) =>
               r1.conn = r2.conn

\* a thread that is inside a call stays with that call until it leaves it
OneCallAtATime ==
    \A w \in Threads :
        thread[w].pc # "idle" =>
            \/ thread'[w].pc = "idle"
            \/ thread'[w].call = thread[w].call

\* the threads inside a statement's call, each on its connection
Busy == {w \in Threads : thread[w].pc # "idle"}

\* C15: no two statements run at the same time on one connection: the
\* threads inside a call hold different connections, each the thread's own,
\* every finished call ran on a connection its thread opened, and a thread
\* ends one call, with rows or an error, before it starts the next.
C15_OneStatementPerConnection ==
    /\ [](/\ \A w1, w2 \in Busy :
                 w1 # w2 => thread[w1].conn # thread[w2].conn
          /\ \A w \in Busy : opened[thread[w].conn].thread = w
          /\ \A r \in results : opened[r.conn].thread = r.thread)
    /\ [][OneCallAtATime]_vars

C15_Witness ==
    \E w1, w2 \in Threads :
        /\ w1 # w2
        /\ thread[w1].pc = "executing" /\ thread[w2].pc = "executing"
        /\ thread[w1].call.db = thread[w2].call.db
        /\ thread[w1].conn # thread[w2].conn

\* C16: whatever the request's override is, positive, zero or negative,
\* the time limit a statement runs under, and the limit of the handler set
\* on its connection, never exceed sql_time_limit_ms; and it is below
\* sql_time_limit_ms only when the override is.
C16_OverrideNeverLengthens ==
    /\ \A w \in Threads :
           thread[w].pc \in {"executing", "returning", "raising"} =>
               /\ thread[w].time_limit_ms <= sql_time_limit_ms
               /\ thread[w].time_limit_ms < sql_time_limit_ms =>
                      /\ thread[w].call.raw # None
                      /\ thread[w].time_limit_ms = IntVal(thread[w].call.raw)
               /\ thread[w].pc = "executing" =>
                      progress_handler[thread[w].conn][1].ms
                          <= sql_time_limit_ms
    /\ \A r \in results :
           r.error # PrepareError => r.time_limit_ms <= sql_time_limit_ms

C16_Witness ==
    \E w \in Threads :
        /\ thread[w].pc = "executing"
        /\ thread[w].call.raw # None
        /\ IntVal(thread[w].call.raw) > sql_time_limit_ms
        /\ thread[w].time_limit_ms = sql_time_limit_ms
        /\ sql_time_limit_ms > 0

\* C7: a statement aborted by its time limit ends its call with an error
\* and frees its thread; the connection stays cached, and the thread's next
\* statement on it runs under its own time limit only.
C7_AbortLeavesConnectionUsable ==
    \* an aborted statement can always leave: nothing holds its thread
    /\ \A w \in Threads :
           thread[w].pc = "raising" => ENABLED LeaveTimeLimit(w)
    \* a statement is aborted exactly when it outruns its own time limit,
    \* whatever ran on the connection before
    /\ \A r \in results :
           r.error # PrepareError =>
               ((r.error = "OperationalError") <=>
                    (r.call.cost > r.time_limit_ms))
    \* the handler in force while a statement runs is that statement's
    /\ \A w \in Threads :
           thread[w].pc = "executing" =>
               progress_handler[thread[w].conn] =
                   TimeLimitHandler(thread[w].call, thread[w].time_limit_ms)
    \* the connection of an aborted statement stays in its thread's cache
    /\ \A r \in results :
           r.error = "OperationalError" =>
               connections[r.thread][r.call.db] = r.conn
    \* and serves that thread's later statements
    /\ \A r1, r2 \in results :
           (/\ r1.thread = r2.thread /\ r1.call.db = r2.call.db
            /\ r1.error = "OperationalError" /\ r2.error # PrepareError) =>
               r1.conn = r2.conn

C7_Witness ==
    \E r1, r2 \in results :
        /\ r1.thread = r2.thread
        /\ r1.call.db = r2.call.db
        /\ r1.call.id < r2.call.id
        /\ r1.error = "OperationalError"
        /\ r2.error = ""
        /\ r2.call.cost > 0
        /\ r1.conn = r2.conn

\* ------------------------------------------------- DatabaseView.custom_sql
Letters ==
    {"a", "b", "c", "d", "e", "f", "g", "h", "i", "j", "k", "l", "m", "n",
     "o", "p", "q", "r", "s", "t", "u", "v", "w", "x", "y", "z",
     "A", "B", "C", "D", "E", "F", "G", "H", "I", "J", "K", "L", "M", "N",
     "O", "P", "Q", "R", "S", "T", "U", "V", "W", "X", "Y", "Z"}

\* the character class [a-zA-Z0-0_] of re_named_parameter
IsParameterChar(c) == c \in Letters \cup {"0", "_"}

RECURSIVE MatchedPrefix(_)
\* what [a-zA-Z0-0_]+ consumes of the text after a colon
MatchedPrefix(text) ==
    IF Len(text) = 0 \/ ~IsParameterChar(text[1]) THEN <<>>
    ELSE <<text[1]>> \o MatchedPrefix(Tail(text))

\* re_named_parameter.findall(sql), for a statement whose placeholders
\* are :name for each name of `placeholders`
NamedParameters(placeholders) ==
    {MatchedPrefix(n) : n \in {q \in placeholders : MatchedPrefix(q) # <<>>}}

\* validate_sql_select: a single SELECT with no PRAGMA, ATTACH or VACUUM
ValidateSqlSelect(sql) == sql.starts_select /\ ~sql.forbidden

\* the keys of params once the named parameters missing from the request
\* are set to ''
ParamsKeys(sql, supplied) == supplied \cup NamedParameters(sql.placeholders)

\* What cursor.execute(sql, params) does under time_limit_ms: sqlite3 wants
\* a value for each placeholder, then runs the statement.
ExecuteError(sql, keys, time_limit_ms) ==
    IF ~(sql.placeholders \subseteq keys) THEN "ProgrammingError"
    ELSE IF sql.fails THEN "OperationalError"
    ELSE IF sql.cost > time_limit_ms THEN "OperationalError"
    ELSE ""

\* the exceptions view_get turns into an error page
CaughtByViewGet == {"OperationalError", "InvalidSql"}

\* The response view_get builds when self.data raised `exception`, or
\* returned when it is "".  An exception view_get does not catch leaves it,
\* and the framework answers 500.
ViewGetResponse(exception, message) ==
    IF exception = ""
    THEN [status |-> 200, ok |-> TRUE, error |-> "", raised |-> ""]
    ELSE IF exception \in CaughtByViewGet
    THEN [status |-> 400, ok |-> FALSE, error |-> message, raised |-> ""]
    ELSE [status |-> 500, ok |-> FALSE, error |-> "", raised |-> exception]

Statements ==
    [starts_select : BOOLEAN, forbidden : BOOLEAN,
     placeholders : SUBSET {<<"a">>, <<"p", "1">>},
     fails : BOOLEAN, cost : {0, MaxCost}]

CustomRequests ==
    [sql : Statements,
     supplied : SUBSET {<<"a">>, <<"p", "1">>},
     raw_limit : {None, IntStr(MaxCost - 1), <<"x">>},
     state : {"received"}]

Answer(req, exception, message, from_execute) ==
    [sql |-> req.sql, supplied |-> req.supplied, raw_limit |-> req.raw_limit,
     exception |-> exception, from_execute |-> from_execute,
     response |-> ViewGetResponse(exception, message)]

\* view_get calls custom_sql, which validates the statement, collects its
\* parameters and the time limit, and hands the statement to execute.
CustomSql ==
    /\ request # <<>>
    /\ request.state = "received"
    /\ IF ~ValidateSqlSelect(request.sql)
       THEN /\ responses' = Append(responses,
                   Answer(request, "InvalidSql", "invalid", FALSE))
            /\ request' = [request EXCEPT !.state = "answered"]
            /\ UNCHANGED dispatched
       ELSE IF request.raw_limit # None /\ ~IsIntStr(request.raw_limit)
       THEN /\ responses' = Append(responses,
                   Answer(request, "ValueError", "", FALSE))
            /\ request' = [request EXCEPT !.state = "answered"]
            /\ UNCHANGED dispatched
       ELSE /\ dispatched' = Append(dispatched, request.sql)
            /\ request' = [request EXCEPT !.state = "awaiting"]
            /\ UNCHANGED responses
    /\ UNCHANGED <<pageVars, execVars, registryVars, max_returned_rows>>

\* The executor's thread has run the statement: custom_sql returns its
\* rows, or the statement's exception reaches view_get.
CustomSqlExecuted ==
    /\ request # <<>>
    /\ request.state = "awaiting"
    /\ LET ms == TimeLimitMs(CustomTimeLimit(request.raw_limit),
                             sql_time_limit_ms)
           exception == ExecuteError(request.sql,
                            ParamsKeys(request.sql, request.supplied), ms)
       IN  responses' = Append(responses,
               Answer(request, exception,
                      IF exception = "" THEN "" ELSE "message", TRUE))
    /\ request' = [request EXCEPT !.state = "answered"]
    /\ UNCHANGED <<dispatched, pageVars, execVars, registryVars,
                   max_returned_rows>>

InitCustom ==
    /\ NoPage
    /\ NoExecute
    /\ NoRegistry
    /\ max_returned_rows = DefaultMaxReturnedRows
    /\ request \in CustomRequests
    /\ dispatched = <<>>
    /\ responses = <<>>

NextCustom == CustomSql \/ CustomSqlExecuted

SpecCustom == InitCustom /\ [][NextCustom]_vars

\* C10 (as claimed): custom SQL reaches the executor only after
\* validate_sql_select accepted it, and a statement the gate rejects, or
\* whose execution fails or is aborted by the time limit, is answered with
\* status 400, ok = false and the error message, never with 200.
C10_UnsafeOrFailedIs400 ==
    /\ \A i \in 1..Len(dispatched) : ValidateSqlSelect(dispatched[i])
    /\ \A i \in 1..Len(responses) :
           LET r == responses[i]
           IN  (\/ ~ValidateSqlSelect(r.sql)
                \/ (r.from_execute /\ r.exception # "")) =>
                   /\ r.response.status = 400
                   /\ r.response.ok = FALSE
                   /\ r.response.error # ""

\* ------------------------------------------------------------ RowView.data
\* The outcome of RowView.data for the row page of table t (not a view) at
\* pk_path.  Each key column, or rowid, gets one '"pk"=:p<i>'; each
\* component of the path is bound as p<i>.  sqlite3 raises ProgrammingError
\* for a placeholder without a value and ignores the values no placeholder
\* names.
RowViewData(t, path) ==
    LET pk_values == CompoundPksFromPath(path)
        use_rowid == Len(PksOf(t.kind)) = 0
        pks == IF use_rowid THEN <<"rowid">> ELSE PksOf(t.kind)
        wheres == [i \in 1..Len(pks) |->
                       [col |-> pks[i], op |-> "=", p |-> i - 1]]
        params == pk_values
        rows == Select(t.rows, wheres, params, pks, Cardinality(t.rows), 0)
    IN  IF Len(params) < Len(wheres)
        THEN [error |-> "ProgrammingError", rows |-> <<>>,
              primary_key_values |-> pk_values]
        ELSE IF Len(rows) = 0
        THEN [error |-> "NotFound", rows |-> <<>>,
              primary_key_values |-> pk_values]
        ELSE [error |-> "", rows |-> rows, primary_key_values |-> pk_values]

\* the components a path or cursor is made of: the keys, and a word
PathComponents == {IntStr(v) : v \in 1..MaxKey} \cup {<<"x">>}

\* the paths of one to MaxComponents components
Paths ==
    {JoinComma(c) : c \in UNION {[1..n -> PathComponents] :
                                     n \in 1..MaxComponents}}

\* One request for a row page.
RowViewRequest ==
    /\ reply = <<>>
    /\ pk_path # <<>>
    /\ reply' = RowViewData(table, pk_path)
    /\ UNCHANGED <<table, other_args, page_size, cursor, pages, cursors,
                   pstate, request_args, pk_path, max_returned_rows,
                   execVars, registryVars, customVars>>

InitRow ==
    /\ NoExecute
    /\ NoRegistry
    /\ NoCustom
    /\ table \in {t \in Tables : t.kind # "view"}
    /\ other_args = <<>>
    /\ page_size = 1
    /\ max_returned_rows = DefaultMaxReturnedRows
    /\ cursor = None
    /\ pages = <<>>
    /\ cursors = <<>>
    /\ pstate = "done"
    /\ request_args = <<>>
    /\ pk_path \in Paths
    /\ reply = <<>>

NextRow == RowViewRequest

SpecRow == InitRow /\ [][NextRow]_vars

\* the key of a table's rows: its primary key columns, else rowid
KeyOf(kind) == IF Len(PksOf(kind)) = 0 THEN <<"rowid">> ELSE PksOf(kind)

\* C11 (as claimed): for every table and every pk_path, of any number of
\* components, RowView.data returns the one row whose key equals the
\* decoded components of the path, or fails with NotFound, and nothing else.
C11_RowOrNotFound ==
    reply # <<>> =>
        \/ reply.error = "NotFound"
        \/ /\ reply.error = ""
           /\ Len(reply.rows) = 1
           /\ LET key == KeyOf(table.kind)
                  values == CompoundPksFromPath(pk_path)
              IN  /\ Len(values) = Len(key)
                  /\ \A i \in 1..Len(key) :
                         /\ IsIntStr(values[i])
                         /\ reply.rows[1][key[i]] = IntVal(values[i])

\* ------------------------------------------- TableView.data, one request
\* '__' in key
HasDoubleUnderscore(key) ==
    \E i \in 1..(Len(key) - 1) : key[i] = "_" /\ key[i + 1] = "_"

\* A test that takes every key with a leading underscore for a special one.
IsSpecialArgAnyUnderscore(key) == Len(key) > 0 /\ key[1] = "_"

\* key.startswith('_') and '__' not in key
IsSpecialArg(key) ==
    Len(key) > 0 /\ key[1] = "_" /\ ~HasDoubleUnderscore(key)

\* special_args of TableView.data
SpecialArgs(rargs) == SelectSeq(rargs, LAMBDA kv : IsSpecialArg(kv.key))

\* other_args of TableView.data
OtherArgs(rargs) == SelectSeq(rargs, LAMBDA kv : ~IsSpecialArg(kv.key))

\* d.get(key): the value under key, or None
Get(d, key) ==
    IF \E i \in 1..Len(d) : d[i].key = key
    THEN d[CHOOSE i \in 1..Len(d) : d[i].key = key].value
    ELSE None

KeyNext == <<"_", "n", "e", "x", "t">>

KeySqlTimeLimitMs ==
    <<"_", "s", "q", "l", "_", "t", "i", "m", "e", "_", "l", "i", "m", "i",
      "t", "_", "m", "s">>

ExactSuffix == <<"_", "_", "e", "x", "a", "c", "t">>

\* the column a filter key names: the key without its '__exact'
ColumnOfKey(key) ==
    IF /\ Len(key) > Len(ExactSuffix)
       /\ SubSeq(key, Len(key) - Len(ExactSuffix) + 1, Len(key)) = ExactSuffix
    THEN SubSeq(key, 1, Len(key) - Len(ExactSuffix))
    ELSE key

\* the columns of the modelled tables
IsColumn(name) == name \in {<<"a">>, <<"b">>}

\* the filters build_where_clauses makes of other_args
ColumnFilters(other) ==
    [i \in 1..Len(other) |->
        [col |-> ColumnOfKey(other[i].key)[1], value |-> other[i].value]]

Failure(error, special, other) ==
    [error |-> error, rows |-> <<>>, next |-> None, truncated |-> FALSE,
     where_clauses |-> <<>>, params |-> <<>>, offset |-> 0, fetched |-> 0,
     special_args |-> special, other_args |-> other, filtered |-> <<>>]

\* TableView.data for the request whose query string is rargs: the keys are
\* split into special_args and other_args, other_args go to
\* build_where_clauses, _next and _sql_time_limit_ms are read, and the
\* statement is executed.  int() raises ValueError, and a filter on a column
\* the table lacks makes the statement fail: OperationalError.
TableViewRequest(t, rargs, psize, max_rows) ==
    LET special == SpecialArgs(rargs)
        other == OtherArgs(rargs)
        next == Get(special, KeyNext)
        raw_limit == Get(rargs, KeySqlTimeLimitMs)
    IN  IF t.kind = "view" /\ next # None /\ ~IsIntStr(next)
        THEN Failure("ValueError", special, other)
        ELSE IF raw_limit # None /\ ~IsIntStr(raw_limit)
        THEN Failure("ValueError", special, other)
        ELSE IF \E i \in 1..Len(other) : ~IsColumn(ColumnOfKey(other[i].key))
        THEN Failure("OperationalError", special, other)
        ELSE LET data == TableViewData(t, ColumnFilters(other), next, psize,
                                       max_rows)
             IN  [error |-> data.error, rows |-> data.rows,
                  next |-> data.next, truncated |-> data.truncated,
                  where_clauses |-> data.where_clauses,
                  params |-> data.params, offset |-> data.offset,
                  fetched |-> data.fetched,
                  special_args |-> special, other_args |-> other,
                  filtered |-> ColumnFilters(other)]

\* the tables requested: those whose rows hold the least and the greatest
\* value in each column
RequestTables ==
    {t \in Tables :
        \A r \in t.rows : r.a \in {1, MaxKey} /\ r.b \in {1, MaxKey}}

\* the _next tokens requested: keys and words of one to MaxComponents
\* components, and the offsets 0 and -1
CursorTokens ==
    {JoinComma(c) :
        c \in UNION {[1..n -> {IntStr(1), IntStr(MaxKey), <<"x">>}] :
                         n \in 1..MaxComponents}}
    \cup {IntStr(0), IntStr(0 - 1)}

Arg(key, value) == [key |-> key, value |-> value]

\* the filter keys requested: a column, a column with __exact, and a
\* column whose name starts with an underscore, with __exact
FilterArgs ==
    {<<>>, <<Arg(<<"b">>, IntStr(1))>>,
     <<Arg(<<"b">> \o ExactSuffix, IntStr(MaxKey))>>,
     <<Arg(<<"_", "b">> \o ExactSuffix, IntStr(1))>>}

\* the special keys requested besides _next
ControlArgs ==
    {<<>>, <<Arg(KeySqlTimeLimitMs, IntStr(1))>>,
     <<Arg(KeySqlTimeLimitMs, <<"x">>)>>,
     <<Arg(<<"_", "s", "i", "z", "e">>, IntStr(1))>>}

\* the query strings requested: any cursor on its own or with a filter, and
\* any filter with any control key, with and without a cursor
QueryStrings ==
    {f \o <<Arg(KeyNext, c)>> :
        c \in CursorTokens, f \in {<<>>, <<Arg(<<"b">>, IntStr(1))>>}}
    \cup {f \o c \o n :
             f \in FilterArgs, c \in ControlArgs,
             n \in {<<>>, <<Arg(KeyNext, IntStr(1))>>}}

\* One request for a table page.
TableViewGet ==
    /\ reply = <<>>
    /\ pk_path = <<>>
    /\ reply' = TableViewRequest(table, request_args, page_size,
                                 max_returned_rows)
    /\ UNCHANGED <<table, other_args, page_size, cursor, pages, cursors,
                   pstate, request_args, pk_path, max_returned_rows,
                   execVars, registryVars, customVars>>

InitRequest ==
    /\ NoExecute
    /\ NoRegistry
    /\ NoCustom
    /\ table \in RequestTables
    /\ other_args = <<>>
    /\ page_size \in 1..MaxPageSize
    /\ max_returned_rows \in {SmallMaxReturnedRows, DefaultMaxReturnedRows}
    /\ cursor = None
    /\ pages = <<>>
    /\ cursors = <<>>
    /\ pstate = "done"
    /\ request_args \in QueryStrings
    /\ pk_path = <<>>
    /\ reply = <<>>

NextRequest == TableViewGet

SpecRequest == InitRequest /\ [][NextRequest]_vars

\* ---------------------------------------------- following 'next' to the end
FilterSets ==
    {<<>>} \cup {<<[col |-> "b", value |-> IntStr(v)]>> : v \in 1..MaxKey}

InitPage ==
    /\ NoRequest
    /\ NoExecute
    /\ NoRegistry
    /\ NoCustom
    /\ table \in Tables
    /\ other_args \in FilterSets
    /\ page_size \in 1..MaxPageSize
    /\ max_returned_rows \in {0, SmallMaxReturnedRows, DefaultMaxReturnedRows}
    /\ cursor = None
    /\ pages = <<>>
    /\ cursors = <<>>
    /\ pstate = "paging"

\* One request: TableView.data with the previous response's 'next' as _next.
RequestPage ==
    /\ pstate = "paging"
    /\ LET data == TableViewData(table, other_args, cursor, page_size,
                                 max_returned_rows)
       IN  /\ pages' = Append(pages, data.rows)
           /\ cursors' = Append(cursors, data.next)
           /\ cursor' = data.next
           /\ pstate' = IF data.next = None THEN "done" ELSE "paging"
    /\ UNCHANGED <<table, other_args, page_size, max_returned_rows,
                   requestVars, execVars, registryVars, customVars>>

NextPage == RequestPage

SpecPage == InitPage /\ [][NextPage]_vars

\* ------------------------------------------------- claims on TableView.data
RECURSIVE Flatten(_)
Flatten(ss) == IF Len(ss) = 0 THEN <<>> ELSE ss[1] \o Flatten(Tail(ss))

\* the ORDER BY of a keyed or rowid table
OrderOf(kind) == IF kind = "rowid" THEN <<"rowid">> ELSE PksOf(kind)

\* every row the request's filters match, in the table's order
AllMatching ==
    LET built == BuildWhereClauses(other_args)
    IN  Sorted({r \in table.rows :
                    WhereHolds(r, built.where_clauses, built.params)},
               OrderOf(table.kind))

\* C1 (as claimed): for a table with a single-column key, a compound key or
\* a rowid, any filters and any page size, following 'next' from the first
\* page to the end yields pages whose rows each come strictly after the row
\* before them in the table's order, and whose concatenation is exactly the
\* rows the filters match.  Stated for the configurations whose row limit
\* leaves a page and its probe row whole, as the default one does.
C1_CursorCorrectness ==
    (/\ table.kind # "view"
     /\ pstate = "done"
     /\ (max_returned_rows = 0 \/ max_returned_rows > page_size)) =>
        LET all == Flatten(pages)
        IN  /\ \A i \in 1..(Len(all) - 1) :
                   RowBefore(all[i], all[i + 1], OrderOf(table.kind))
            /\ all = AllMatching

C2Table ==
    [kind |-> "pk2", rows |-> {Row(1, 1), Row(1, 2), Row(2, 1)}]

\* C2 (as claimed): on the compound-key table holding (1,1), (1,2), (2,1),
\* with page size 2, the first page is [(1,1),(1,2)] with next "1,2", and
\* the page for _next = "1,2" is [(2,1)] with no next.
C2_CompoundExample ==
    (/\ table = C2Table
     /\ other_args = <<>>
     /\ page_size = 2
     /\ max_returned_rows = DefaultMaxReturnedRows) =>
        /\ Len(pages) >= 1 =>
              /\ pages[1] = <<Row(1, 1), Row(1, 2)>>
              /\ cursors[1] = <<"1", ",", "2">>
        /\ Len(pages) >= 2 =>
              /\ pages[2] = <<Row(2, 1)>>
              /\ cursors[2] = None

\* C12 (as claimed): for a rowid table or a table with a single-column key,
\* every row of a page requested with cursor c has a key greater than c, the
\* rows of a page ascend by key, the 'next' of a page is the encoded key of
\* the last row it displays, and following 'next' from the first page to
\* the end visits every matching row exactly once.
C12_SimpleKeyPagination ==
    table.kind \in {"rowid", "pk1"} =>
        LET key == KeyOf(table.kind)[1]
        IN  /\ \A i \in 2..Len(pages) : \A j \in 1..Len(pages[i]) :
                   pages[i][j][key] > IntVal(cursors[i - 1])
            /\ \A i \in 1..Len(pages) : \A j \in 1..(Len(pages[i]) - 1) :
                   pages[i][j][key] < pages[i][j + 1][key]
            /\ \A i \in 1..Len(pages) :
                   cursors[i] # None =>
                       /\ Len(pages[i]) > 0
                       /\ cursors[i] =
                              IntStr(pages[i][Len(pages[i])][key])
            /\ pstate = "done" => Flatten(pages) = AllMatching

\* the request's _next
RequestedNext == Get(SpecialArgs(request_args), KeyNext)

\* the rows the page's query matches, its LIMIT left off
PageMatches ==
    Select(table.rows, reply.where_clauses, reply.params,
           IF table.kind = "view" THEN <<>> ELSE KeyOf(table.kind),
           Cardinality(table.rows),
           IF reply.offset < 0 THEN 0 ELSE reply.offset)

\* C13 (as claimed): whatever page_size and max_returned_rows are, execute
\* hands TableView.data min(matching rows, page_size + 1) rows; the page
\* has at most page_size rows; it has a 'next' exactly when more than
\* page_size rows match its query; and 'next' encodes the last row displayed,
\* or offset + page_size for a view.
C13_ProbeRowDecidesNext ==
    (reply # <<>> /\ pk_path = <<>> /\ reply.error = "") =>
        /\ reply.fetched = Min(Len(PageMatches), page_size + 1)
        /\ Len(reply.rows) <= page_size
        /\ (reply.next # None) <=> (Len(PageMatches) > page_size)
        /\ reply.next # None =>
               IF table.kind = "view"
               THEN reply.next = IntStr(reply.offset + page_size)
               ELSE /\ Len(reply.rows) = page_size
                    /\ reply.next =
                           PathFromRowPks(reply.rows[page_size],
                               PksOf(table.kind), table.kind = "rowid")

\* ----------------------------------------- claims on the registry, threaded
\* the mapping holds every configured file with its hash and tables
IsWholeRegistry(m) ==
    \A i \in 1..Len(files) :
        \E n \in DOMAIN m : m[n] = DatabaseInfo(files[i])

\* C14 (as claimed): however the calls of inspect() by the request handlers
\* and by the executor's threads interleave, the files are scanned by at most
\* one call, never by two at a time, and every mapping a caller is handed
\* holds every configured database with its table metadata.
C14_ScannedOnceNeverPartial ==
    inspect_data = None =>
        /\ Cardinality({i \in 1..Len(inspect_calls) :
                            inspect_calls[i].scanned # <<>>}) <= 1
        /\ Cardinality({c \in Callers :
                            inspecting[c].pc \in {"scanning", "hashed"}}) <= 1
        /\ \A i \in 1..Len(inspect_calls) :
               inspect_calls[i].error = "" =>
                   IsWholeRegistry(inspect_calls[i].returned)

\* the request without its _next
WithoutNext == SelectSeq(request_args, LAMBDA kv : kv.key # KeyNext)

\* what TableView.data answers to the request without its _next
ReplyWithoutNext ==
    TableViewRequest(table, WithoutNext, page_size, max_returned_rows)

\* C18 (as claimed): a request that is answered with a page when it carries
\* no _next is answered with a page whatever _next it carries: a key, a
\* compound key, an offset or a word, on a table of any kind or a view.
C18_ForeignCursorNeverFails ==
    (/\ reply # <<>>
     /\ pk_path = <<>>
     /\ RequestedNext # None
     /\ ReplyWithoutNext.error = "") =>
        reply.error = ""

\* the request's _next has as many components as the table's key has columns
CursorFitsKey ==
    Len(CompoundPksFromPath(RequestedNext)) = Len(PksOf(table.kind))

\* C19: on a table with a primary key, a _next of another number of
\* components than the key has columns adds no clause and no parameter: the
\* WHERE clauses and parameters are those of the request's filters alone,
\* the same as without _next, and the response is the first page of the
\* filtered rows, not a failure.
C19_MisfitCursorIgnored ==
    (/\ reply # <<>>
     /\ pk_path = <<>>
     /\ table.kind \in {"pk1", "pk2"}
     /\ RequestedNext # None
     /\ ~CursorFitsKey
     /\ ReplyWithoutNext.error = "") =>
        /\ reply.error = ""
        /\ reply.where_clauses = BuildWhereClauses(reply.filtered).where_clauses
        /\ reply.params = BuildWhereClauses(reply.filtered).params
        /\ reply.where_clauses = ReplyWithoutNext.where_clauses
        /\ reply.params = ReplyWithoutNext.params
        /\ reply.rows = ReplyWithoutNext.rows
        /\ reply.next = ReplyWithoutNext.next

C19_Witness ==
    /\ reply # <<>>
    /\ pk_path = <<>>
    /\ table.kind = "pk2"
    /\ RequestedNext = IntStr(1)
    /\ Len(reply.filtered) = 1
    /\ reply.error = ""
    /\ Len(reply.where_clauses) = 1
    /\ Len(reply.rows) = page_size
    /\ reply.rows[1].a = 1

\* a key with a leading underscore and no double underscore
IsReserved(key) ==
    Len(key) > 0 /\ key[1] = "_" /\ ~HasDoubleUnderscore(key)

ReservedArgs == SelectSeq(request_args, LAMBDA kv : IsReserved(kv.key))

ColumnArgs == SelectSeq(request_args, LAMBDA kv : ~IsReserved(kv.key))

\* C20 (as claimed): the keys with a leading underscore and no double
\* underscore, _next and _sql_time_limit_ms among them, are never passed to
\* build_where_clauses and give the statement no WHERE clause and no bound
\* parameter; every other key is passed to it as a column filter.
C20_ReservedKeysGiveNoClause ==
    (reply # <<>> /\ pk_path = <<>>) =>
        /\ reply.other_args = ColumnArgs
        /\ reply.error = "" =>
               /\ Len(reply.where_clauses) = Len(ColumnArgs)
               /\ Len(reply.params) = Len(ColumnArgs)

\* C20 (amended): the keys with a leading underscore and no double
\* underscore are never passed to build_where_clauses and give the statement
\* no column filter; every other key is passed to it, and the filters are
\* the first clauses and parameters of the statement.  The clauses after
\* them are the cursor's: there are none without _next, and each compares a
\* key column, or rowid, with _next or a component of it.
C20_ReservedKeysGiveNoFilter ==
    (reply # <<>> /\ pk_path = <<>>) =>
        /\ reply.other_args = ColumnArgs
        /\ reply.special_args = ReservedArgs
        /\ \A i \in 1..Len(reply.other_args) :
               ~IsReserved(reply.other_args[i].key)
        /\ reply.error = "" =>
               LET n == Len(ColumnArgs)
               IN  /\ Len(reply.where_clauses) >= n
                   /\ Len(reply.params) = Len(reply.where_clauses)
                   /\ \A i \in 1..n :
                          /\ reply.where_clauses[i] =
                                 [col |-> ColumnOfKey(ColumnArgs[i].key)[1],
                                  op |-> "=", p |-> i - 1]
                          /\ reply.params[i] = ColumnArgs[i].value
                   /\ RequestedNext = None => Len(reply.where_clauses) = n
                   /\ \A i \in (n + 1)..Len(reply.where_clauses) :
                          /\ reply.where_clauses[i].op = ">"
                          /\ \E k \in 1..Len(KeyOf(table.kind)) :
                                 reply.where_clauses[i].col =
                                     KeyOf(table.kind)[k]
                          /\ \/ reply.params[i] = RequestedNext
                             \/ \E k \in 1..Len(CompoundPksFromPath(
                                              RequestedNext)) :
                                    reply.params[i] =
                                        CompoundPksFromPath(RequestedNext)[k]

C20_Witness ==
    /\ reply # <<>>
    /\ pk_path = <<>>
    /\ table.kind = "rowid"
    /\ reply.error = ""
    /\ Len(reply.other_args) = 1
    /\ Len(reply.special_args) = 2
    /\ Len(reply.where_clauses) = 2
    /\ reply.where_clauses[1].op = "="
    /\ reply.where_clauses[2].op = ">"
    /\ Len(reply.rows) > 0

\* ------------------------------------------------ claims on the traversal
\* a cursor as the numbers it encodes: an offset, a rowid, or one per key column
CursorNumbers(c) ==
    LET parts == SplitComma(c)
    IN  [i \in 1..Len(parts) |-> IntVal(parts[i])]

\* c2 comes after c1: the numbers of c2 follow those of c1 lexicographically
CursorAfter(c1, c2) ==
    LET n1 == CursorNumbers(c1)
        n2 == CursorNumbers(c2)
    IN  /\ Len(n1) = Len(n2)
        /\ \E i \in 1..Len(n1) :
               /\ n2[i] > n1[i]
               /\ \A j \in 1..(i - 1) : n2[j] = n1[j]

\* C21: for every table or view and every page size >= 1, following 'next'
\* from the request without a cursor ends: a traversal makes at most one
\* request per row of the table and one more, and it goes on exactly until a
\* page carries no 'next'.  Every cursor comes strictly after the cursor
\* before it, and no cursor is produced twice.
C21_TraversalEnds ==
    /\ Len(pages) <= Cardinality(table.rows) + 1
    /\ Len(cursors) = Len(pages)
    /\ pstate = "done" <=>
           (Len(cursors) > 0 /\ cursors[Len(cursors)] = None)
    /\ \A i \in 1..Len(cursors) :
           /\ cursors[i] = None => i = Len(cursors)
           /\ \A j \in (i + 1)..Len(cursors) :
                  cursors[j] # None =>
                      /\ cursors[j] # cursors[i]
                      /\ j = i + 1 => CursorAfter(cursors[i], cursors[j])

C21_Witness ==
    /\ pstate = "done"
    /\ table.kind = "rowid"
    /\ Len(cursors) >= 3
    /\ cursors[1] # None
    /\ cursors[2] # None
    /\ cursors[Len(cursors)] = None

\* ------------------------------------------------------ claims on redirects
\* C22: when resolve_db_name answers a request with a redirect, resolving
\* the db_name of the redirect's target gives the same database name and no
\* further redirect: a client that follows redirects is redirected at most
\* once.
C22_RedirectConvergesInOneStep ==
    /\ Len(resolved.followed) <= 1
    /\ (Len(resolved.followed) = 1 /\ resolved.outcome # <<>>) =>
           LET first == resolved.followed[1]
           IN  /\ resolved.db_name =
                      first.outcome.name \o <<"-">> \o first.outcome.expected
               /\ resolved.outcome.error = ""
               /\ resolved.outcome.should_redirect = None
               /\ resolved.outcome.name = first.outcome.name
               /\ resolved.outcome.expected = first.outcome.expected

C22_Witness ==
    /\ Len(resolved.followed) = 1
    /\ resolved.followed[1].db_name = <<"foo", "-", "bar", "-", "def5678">>
    /\ resolved.kwargs = [table |-> <<"t">>, as_json |-> <<".json">>]
    /\ resolved.db_name = <<"foo", "-", "bar", "-", "abc1234">>
    /\ resolved.outcome # <<>>
    /\ resolved.outcome.should_redirect = None
    /\ Cardinality(DOMAIN _inspect) = 2
====
